---- MODULE Spec2Model ----
(***************************************************************************)
(* TheEye: multi-scale time buckets (TimeSeries) fed by a stream of        *)
(* comment timestamps, and the main program that ingests the stream and    *)
(* then generates statistics around a focus date, possibly several times.  *)
(*                                                                         *)
(* A datetime is the number of seconds since 1970-01-01T00:00:00 (naive,   *)
(* no timezone); a date is the number of days since 1970-01-01.  Both are  *)
(* converted to and from (year, month, day) with the proleptic Gregorian   *)
(* calendar arithmetic of the datetime module.                             *)
(***************************************************************************)
EXTENDS Integers, Sequences, FiniteSets, TLC

VARIABLES storage, pc, comment_time, fetched, ingested, traceback,
          focus, interactive, stdin, calls,
          reference_datetime, days_focussed, minutes_interval,
          hourly_data, dayly_data, monthly_data, yearly_data, raised

vars == <<storage, pc, comment_time, fetched, ingested, traceback,
          focus, interactive, stdin, calls,
          reference_datetime, days_focussed, minutes_interval,
          hourly_data, dayly_data, monthly_data, yearly_data, raised>>

(***************************************************************************)
(* Bounds of the model.                                                    *)
(***************************************************************************)
MaxEvents == 3      \* timestamps the source yields before it is exhausted

\* no exception raised
None == "None"

\* focus is None, or the one-element sequence of a datetime
NoFocus == << >>

(***************************************************************************)
(* Calendar arithmetic of datetime.date / datetime.datetime.               *)
(***************************************************************************)
IsLeap(y) == y % 4 = 0 /\ (y % 100 # 0 \/ y % 400 = 0)

DaysInMonth(y, m) ==
    IF m = 2 /\ IsLeap(y) THEN 29
    ELSE <<31, 28, 31, 30, 31, 30, 31, 31, 30, 31, 30, 31>>[m]

DaysBeforeYear(y) ==
    (y - 1) * 365 + (y - 1) \div 4 - (y - 1) \div 100 + (y - 1) \div 400

DaysBeforeMonth(y, m) ==
    <<0, 31, 59, 90, 120, 151, 181, 212, 243, 273, 304, 334>>[m]
        + (IF m > 2 /\ IsLeap(y) THEN 1 ELSE 0)

\* date(y, m, d) as days since 1970-01-01 (proleptic ordinal 719163)
Date(y, m, d) == DaysBeforeYear(y) + DaysBeforeMonth(y, m) + d - 719163

\* date.year and date.month of a day number
YearOf(date) ==
    LET n0   == date + 719163 - 1
        n400 == n0 \div 146097
        r400 == n0 % 146097
        n100 == r400 \div 36524
        r100 == r400 % 36524
        n4   == r100 \div 1461
        r4   == r100 % 1461
        n1   == r4 \div 365
        y    == n400 * 400 + 1 + n100 * 100 + n4 * 4 + n1
    IN  IF n1 = 4 \/ n100 = 4 THEN y - 1 ELSE y

MonthOf(date) ==
    LET y == YearOf(date)
        n == date - Date(y, 1, 1)
    IN  CHOOSE m \in 1..12 :
            /\ DaysBeforeMonth(y, m) <= n
            /\ n < DaysBeforeMonth(y, m) + DaysInMonth(y, m)

\* datetime(y, m, d, H, M, S) as seconds since 1970-01-01T00:00:00
DateTime(y, m, d, H, M, S) == Date(y, m, d) * 86400 + H * 3600 + M * 60 + S

\* datetime.date()
DateOfDateTime(t) == t \div 86400

\* datetime.replace(second=0, microsecond=0)
ReplaceSecond0(t) == t - (t % 60)

\* datetime.replace(minute=0, hour=0) of a datetime whose second is 0
ReplaceMinuteHour0(t) == t - (t % 86400)

\* date.replace(day=1)
ReplaceDay1(date) == Date(YearOf(date), MonthOf(date), 1)

(***************************************************************************)
(* Raw timestamps: the text of a comment's created_time, field by field.   *)
(* The expected text is YYYY-mm-ddTHH:MM:SS+0000.                          *)
(***************************************************************************)
Raw(y, m, d, H, M, S, z) ==
    [year |-> y, month |-> m, day |-> d,
     hour |-> H, minute |-> M, second |-> S, zone |-> z]

\* the loop variable before the first comment
NoComment == Raw(0, 0, 0, 0, 0, 0, "")

RawTimes ==
    { Raw(2019, 12, 31, 23, 59, 30, "+0000"),
      Raw(2020, 1, 15, 10, 0, 5, "+0000"),
      Raw(2020, 1, 15, 10, 0, 59, "+0000"),
      Raw(2020, 3, 4, 10, 4, 0, "+0000"),
      Raw(2020, 3, 5, 9, 50, 12, "+0000"),
      Raw(2020, 3, 5, 10, 10, 0, "+0000"),
      Raw(2023, 3, 6, 0, 5, 1, "+0000"),
      Raw(2020, 2, 30, 10, 0, 0, "+0000"),
      Raw(2020, 3, 5, 10, 3, 0, "Z") }

\* Parses, with any text accepted after the seconds
ParsesAnyZone(raw) ==
    /\ raw.year \in 1..9999
    /\ raw.month \in 1..12
    /\ raw.day \in 1..DaysInMonth(raw.year, raw.month)
    /\ raw.hour \in 0..23
    /\ raw.minute \in 0..59
    /\ raw.second \in 0..59

\* datetime.strptime(time, '%Y-%m-%dT%H:%M:%S+0000') succeeds
Parses(raw) ==
    /\ raw.zone = "+0000"
    /\ raw.year \in 1..9999
    /\ raw.month \in 1..12
    /\ raw.day \in 1..DaysInMonth(raw.year, raw.month)
    /\ raw.hour \in 0..23
    /\ raw.minute \in 0..59
    /\ raw.second \in 0..59

Strptime(raw) ==
    DateTime(raw.year, raw.month, raw.day, raw.hour, raw.minute, raw.second)

(***************************************************************************)
(* TimeSeries is a Counter: a mapping from the keys it holds to counts.    *)
(***************************************************************************)
EmptyCounter == [k \in {} |-> 0]

\* Counter.__getitem__ / __missing__
Get(counter, k) == IF k \in DOMAIN counter THEN counter[k] ELSE 0

\* self[k] += n
Increment(counter, k, n) ==
    [x \in DOMAIN counter \cup {k} |-> IF x = k THEN Get(counter, k) + n
                                        ELSE counter[x]]

\* ParseNewTime, without rounding down to the minute
ParseNewTimeToTheSecond(counter, raw) ==
    Increment(counter, Strptime(raw), 1)

\* TimeSeries.parse_new_time
ParseNewTime(counter, raw) ==
    Increment(counter, ReplaceSecond0(Strptime(raw)), 1)

\* sum(counter.values())
RECURSIVE Total(_)
Total(counter) ==
    IF DOMAIN counter = {} THEN 0
    ELSE LET k == CHOOSE x \in DOMAIN counter : TRUE
         IN  counter[k] + Total([x \in DOMAIN counter \ {k} |-> counter[x]])

\* min(self), max(self) of a non-empty counter
Min(counter) == CHOOSE k \in DOMAIN counter : \A x \in DOMAIN counter : k <= x
Max(counter) == CHOOSE k \in DOMAIN counter : \A x \in DOMAIN counter : k >= x

(***************************************************************************)
(* An OrderedDict is the sequence of its (key, value) pairs, in insertion  *)
(* order.                                                                  *)
(***************************************************************************)
Keys(od) == [i \in DOMAIN od |-> od[i][1]]
HasKey(od, k) == \E i \in DOMAIN od : od[i][1] = k
Value(od, k) == od[CHOOSE i \in DOMAIN od : od[i][1] = k][2]

\* OrderedDict((k, 0) for k in keys)
Zeroes(keys) == [i \in DOMAIN keys |-> <<keys[i], 0>>]

\* od[k] += n, for a key the dictionary holds
Add(od, k, n) ==
    [i \in DOMAIN od |-> IF od[i][1] = k THEN <<k, od[i][2] + n>> ELSE od[i]]

\* xrange(a, b) and reversed(...)
XRange(a, b) == [i \in 1..(IF b > a THEN b - a ELSE 0) |-> a + i - 1]
Reversed(seq) == [i \in DOMAIN seq |-> seq[Len(seq) + 1 - i]]

\* int(a / b) of a float division, a >= 0, b # 0: rounds towards zero
IntOfQuotient(a, b) == IF b > 0 THEN a \div b ELSE -(a \div (-b))

\* a % b of Python, b # 0: the result has the sign of b
PyMod(a, b) == IF b > 0 THEN a % b ELSE -((-a) % (-b))

(***************************************************************************)
(* TimeSeries.generate_statistics                                          *)
(***************************************************************************)
\* reference, before it is moved: the argument rounded down to the minute
Reference(ref) == ReplaceSecond0(ref)

\* MovedReference, with the reference left where it is
UnmovedReference(ref) == Reference(ref)

\* MovedReference, with every reference moved to the end of its day
ReferenceMovedToMidnight(ref) == ReplaceMinuteHour0(Reference(ref)) + 86400

\* reference, moved past the last items of interest
MovedReference(ref) ==
    LET reference == Reference(ref)
    IN  IF reference = ReplaceMinuteHour0(reference)
        THEN reference + 86400
        ELSE reference + 60

\* the elements of a set of numbers, ascending
Sorted(S) ==
    [i \in 1..Cardinality(S) |->
        CHOOSE x \in S : Cardinality({y \in S : y < x}) = i - 1]

\* YearlyKeys, without the year of the newest datetime
YearlyKeysBeforeNewest(counter) ==
    XRange(YearOf(DateOfDateTime(Min(counter))),
           YearOf(DateOfDateTime(Max(counter))))

\* YearlyKeys, with keys only for the years that hold an event
YearlyKeysOfEvents(counter) ==
    Sorted({YearOf(DateOfDateTime(k)) : k \in DOMAIN counter})

YearlyKeys(counter) ==
    XRange(YearOf(DateOfDateTime(Min(counter))),
           YearOf(DateOfDateTime(Max(counter))) + 1)

\* the (year, month) pairs from (year, month) on, taken while the first
\* day of the month is not after newest
RECURSIVE MonthsWhile(_, _, _)
MonthsWhile(year, month, newest) ==
    IF DateTime(year, month, 1, 0, 0, 0) <= newest
    THEN <<Date(year, month, 1)>>
         \o (IF month = 12 THEN MonthsWhile(year + 1, 1, newest)
                           ELSE MonthsWhile(year, month + 1, newest))
    ELSE << >>

\* MonthlyKeys, with the first year starting in January
MonthlyKeysFromJanuary(counter) ==
    LET oldest == DateOfDateTime(Min(counter))
    IN  MonthsWhile(YearOf(oldest), 1, Max(counter))

MonthlyKeys(counter) ==
    LET oldest == DateOfDateTime(Min(counter))
    IN  MonthsWhile(YearOf(oldest), MonthOf(oldest), Max(counter))

\* DaylyKeys, with reference_date taken after the reference is moved
DaylyKeysOfMovedReference(ref, days) ==
    LET reference_date == DateOfDateTime(MovedReference(ref))
        offsets == Reversed(XRange(0, days))
    IN  [i \in DOMAIN offsets |-> reference_date - offsets[i]]

DaylyKeys(ref, days) ==
    LET reference_date == DateOfDateTime(Reference(ref))
        offsets == Reversed(XRange(0, days))
    IN  [i \in DOMAIN offsets |-> reference_date - offsets[i]]

Interval(minutes) == minutes * 60

\* Buckets, without the bucket that starts at the moved reference
BucketsOfOneDay(minutes) == IntOfQuotient(86400, Interval(minutes))

Buckets(minutes) == IntOfQuotient(86400, Interval(minutes)) + 1

HourlyKeys(ref, minutes) ==
    LET offsets == Reversed(XRange(0, Buckets(minutes)))
    IN  [i \in DOMAIN offsets |->
            MovedReference(ref) - offsets[i] * Interval(minutes)]

\* CurBucket, with a remainder that has the sign of the offset
CurBucketTruncated(cur_datetime, ref, minutes) ==
    LET offset == cur_datetime - MovedReference(ref)
        beyond == IF offset >= 0 THEN offset % Interval(minutes)
                  ELSE -((-offset) % Interval(minutes))
    IN  cur_datetime - beyond

\* the starting time of the interval cur_datetime belongs to
CurBucket(cur_datetime, ref, minutes) ==
    cur_datetime
        - PyMod(cur_datetime - MovedReference(ref), Interval(minutes))

\* one iteration of the loop over self.iteritems()
Account(acc, cur_datetime, amount, ref, minutes) ==
    LET cur_date == DateOfDateTime(cur_datetime)
        year == YearOf(cur_date)
        month == ReplaceDay1(cur_date)
        cur_bucket == CurBucket(cur_datetime, ref, minutes)
    IN  IF acc.raised # None THEN acc
        ELSE IF ~HasKey(acc.yearly, year) \/ ~HasKey(acc.monthly, month)
        THEN [acc EXCEPT !.raised = "KeyError"]
        ELSE [raised |-> None,
              yearly |-> Add(acc.yearly, year, amount),
              monthly |-> Add(acc.monthly, month, amount),
              dayly |-> IF HasKey(acc.dayly, cur_date)
                        THEN Add(acc.dayly, cur_date, amount)
                        ELSE acc.dayly,
              hourly |-> IF HasKey(acc.hourly, cur_bucket)
                         THEN Add(acc.hourly, cur_bucket, amount)
                         ELSE acc.hourly]

RECURSIVE Pass(_, _, _, _, _)
Pass(acc, counter, todo, ref, minutes) ==
    IF todo = {} THEN acc
    ELSE LET cur_datetime == CHOOSE k \in todo : TRUE
         IN  Pass(Account(acc, cur_datetime, counter[cur_datetime],
                          ref, minutes),
                  counter, todo \ {cur_datetime}, ref, minutes)

NoStatistics(error) ==
    [raised |-> error, hourly |-> << >>, dayly |-> << >>,
     monthly |-> << >>, yearly |-> << >>]

\* Statistics, with the interval divided by before the store is looked at
StatisticsIntervalFirst(counter, ref, days, minutes) ==
    IF Interval(minutes) = 0 THEN NoStatistics("ZeroDivisionError")
    ELSE IF DOMAIN counter = {} THEN NoStatistics("ValueError")
    ELSE Pass([raised |-> None,
               hourly |-> Zeroes(HourlyKeys(ref, minutes)),
               dayly |-> Zeroes(DaylyKeys(ref, days)),
               monthly |-> Zeroes(MonthlyKeys(counter)),
               yearly |-> Zeroes(YearlyKeys(counter))],
              counter, DOMAIN counter, ref, minutes)

\* what generate_statistics yields, or the exception it raises
Statistics(counter, ref, days, minutes) ==
    IF DOMAIN counter = {} THEN NoStatistics("ValueError")
    ELSE IF Interval(minutes) = 0 THEN NoStatistics("ZeroDivisionError")
    ELSE Pass([raised |-> None,
               hourly |-> Zeroes(HourlyKeys(ref, minutes)),
               dayly |-> Zeroes(DaylyKeys(ref, days)),
               monthly |-> Zeroes(MonthlyKeys(counter)),
               yearly |-> Zeroes(YearlyKeys(counter))],
              counter, DOMAIN counter, ref, minutes)

(***************************************************************************)
(* The inputs of a run.                                                    *)
(***************************************************************************)
\* what datetime.datetime.now() may return
Nows == { DateTime(2020, 3, 5, 10, 3, 27) }

\* a line typed at the prompt: year, month and day in one of the available
\* formats, or anything else
Line(y, m, d, r) == [year |-> y, month |-> m, day |-> d, recognized |-> r]

\* the arguments of a run: the focus (None, a date of the command line at
\* midnight, or any datetime of a caller), the interactive flag and the
\* lines standard input holds
RunArguments ==
    { [focus |-> NoFocus, interactive |-> FALSE, stdin |-> << >>],
      [focus |-> <<DateTime(2020, 3, 5, 0, 0, 0)>>, interactive |-> FALSE,
       stdin |-> << >>],
      [focus |-> <<DateTime(2020, 3, 4, 23, 50, 0)>>, interactive |-> TRUE,
       stdin |-> <<Line(2020, 3, 5, TRUE)>>],
      [focus |-> <<DateTime(2020, 1, 15, 10, 0, 30)>>, interactive |-> TRUE,
       stdin |-> <<Line(2020, 1, 16, TRUE), Line(2020, 2, 30, TRUE)>>],
      [focus |-> NoFocus, interactive |-> TRUE,
       stdin |-> <<Line(0, 0, 0, FALSE)>>] }

\* days_focussed and minutes_interval of a run: the defaults of
\* generate_statistics and of parse_object, and what a caller may pass
Configs ==
    { <<31, 20>>, <<15, 20>>, <<2, 420>>, <<0, 2000>>, <<1, 1440>>,
      <<-1, 20>>, <<2, 0>>, <<2, -20>> }

\* custom_date succeeds
CustomDateParses(text) ==
    /\ text.recognized
    /\ text.year \in 1..9999
    /\ text.month \in 1..12
    /\ text.day \in 1..DaysInMonth(text.year, text.month)

CustomDate(text) == DateTime(text.year, text.month, text.day, 0, 0, 0)

(***************************************************************************)
(* The run: ingest the stream, then generate statistics until the user     *)
(* stops refocusing.                                                       *)
(***************************************************************************)
Init ==
    /\ storage = EmptyCounter
    /\ pc = "ingest"
    /\ comment_time = NoComment
    /\ fetched = 0
    /\ ingested = EmptyCounter
    /\ traceback = None
    /\ \E args \in RunArguments :
           /\ focus = args.focus
           /\ interactive = args.interactive
           /\ stdin = args.stdin
    /\ \E config \in Configs :
           /\ days_focussed = config[1]
           /\ minutes_interval = config[2]
    /\ calls = 0
    /\ reference_datetime = 0
    /\ hourly_data = << >>
    /\ dayly_data = << >>
    /\ monthly_data = << >>
    /\ yearly_data = << >>
    /\ raised = None

Arguments == <<focus, interactive, stdin, days_focussed, minutes_interval>>
\* ingested counts the raw timestamps the store has taken in; traceback is
\* the exception traceback.print_exc() has printed
Ingestion == <<storage, comment_time, fetched, ingested, traceback>>

NoCall ==
    UNCHANGED <<calls, reference_datetime,
                hourly_data, dayly_data, monthly_data, yearly_data>>

\* except Exception: nothing fetched aborts, otherwise the analysis goes on
IngestionFailed(error) ==
    /\ IF DOMAIN storage = {}
       THEN pc' = "aborted" /\ raised' = error /\ traceback' = traceback
       ELSE pc' = "statistics" /\ raised' = raised /\ traceback' = error
    /\ UNCHANGED <<storage, ingested, Arguments>>
    /\ NoCall

\* storage.parse_new_time(comment_time) of the ingestion loop
Ingest(raw) ==
    /\ pc = "ingest"
    /\ fetched < MaxEvents
    /\ comment_time' = raw
    /\ fetched' = fetched + 1
    /\ IF Parses(raw)
       THEN /\ storage' = ParseNewTime(storage, raw)
            /\ ingested' = Increment(ingested, raw, 1)
            /\ UNCHANGED <<pc, traceback, Arguments, raised>>
            /\ NoCall
       ELSE IngestionFailed("ValueError")

\* parser.analyze raises while fetching
FetchFails ==
    /\ pc = "ingest"
    /\ UNCHANGED <<comment_time, fetched>>
    /\ IngestionFailed("GraphAPIError")

\* parser.analyze is exhausted
FetchEnds ==
    /\ pc = "ingest"
    /\ pc' = "statistics"
    /\ UNCHANGED <<Ingestion, Arguments, raised>>
    /\ NoCall

\* GenerateStatistics, counting the interval of each datetime on self
\* instead of hourly_data
GenerateStatisticsOnSelf(now) ==
    /\ pc = "statistics"
    /\ \E ref \in {IF focus = NoFocus THEN now ELSE focus[1]} :
       \E stats \in {Statistics(storage, ref, days_focussed,
                                minutes_interval)} :
           /\ reference_datetime' = ref
           /\ hourly_data' = Zeroes(Keys(stats.hourly))
           /\ dayly_data' = stats.dayly
           /\ monthly_data' = stats.monthly
           /\ yearly_data' = stats.yearly
           /\ raised' = stats.raised
           /\ pc' = IF stats.raised = None THEN "prompt" ELSE "aborted"
           /\ storage' =
                  IF stats.raised # None THEN storage
                  ELSE LET k == CurBucket(Min(storage), ref, minutes_interval)
                       IN  Increment(storage, k, storage[Min(storage)])
    /\ calls' = calls + 1
    /\ UNCHANGED <<comment_time, fetched, ingested, traceback, Arguments>>

\* output.new_document(storage.generate_statistics(focus, days, minutes))
GenerateStatistics(now) ==
    /\ pc = "statistics"
    /\ \E ref \in {IF focus = NoFocus THEN now ELSE focus[1]} :
       \E stats \in {Statistics(storage, ref, days_focussed,
                                minutes_interval)} :
           /\ reference_datetime' = ref
           /\ hourly_data' = stats.hourly
           /\ dayly_data' = stats.dayly
           /\ monthly_data' = stats.monthly
           /\ yearly_data' = stats.yearly
           /\ raised' = stats.raised
           /\ pc' = IF stats.raised = None THEN "prompt" ELSE "aborted"
    /\ calls' = calls + 1
    /\ UNCHANGED <<Ingestion, Arguments>>

\* if not interactive: break
Finish ==
    /\ pc = "prompt"
    /\ ~interactive
    /\ pc' = "done"
    /\ UNCHANGED <<Ingestion, Arguments, raised>>
    /\ NoCall

\* focus = custom_date(raw_input(...)); a ValueError breaks the loop
Refocus ==
    /\ pc = "prompt"
    /\ interactive
    /\ stdin # << >>
    /\ stdin' = Tail(stdin)
    /\ IF CustomDateParses(Head(stdin))
       THEN pc' = "statistics" /\ focus' = <<CustomDate(Head(stdin))>>
       ELSE pc' = "done" /\ focus' = focus
    /\ UNCHANGED <<Ingestion, interactive, days_focussed, minutes_interval,
                   raised>>
    /\ NoCall

\* raw_input(...) at the end of standard input: EOFError is not caught
EndOfInput ==
    /\ pc = "prompt"
    /\ interactive
    /\ stdin = << >>
    /\ pc' = "aborted"
    /\ raised' = "EOFError"
    /\ UNCHANGED <<Ingestion, Arguments>>
    /\ NoCall

Next ==
    \/ \E raw \in RawTimes : Ingest(raw)
    \/ FetchFails
    \/ FetchEnds
    \/ \E now \in Nows : GenerateStatistics(now)
    \/ Finish
    \/ Refocus
    \/ EndOfInput

Spec == Init /\ [][Next]_vars

(***************************************************************************)
(* The run of parse_object with a user token and no storage file: the      *)
(* store is built from the fetched stream by the constructor of Counter,   *)
(* which counts the elements as they are, the texts of the timestamps.     *)
(***************************************************************************)
\* Counter.__init__(iterable): one more of the element, over
\* failsafe_generator(parser.analyze(object_id))
CountComment(raw) ==
    /\ pc = "ingest"
    /\ fetched < MaxEvents
    /\ comment_time' = raw
    /\ fetched' = fetched + 1
    /\ storage' = Increment(storage, raw, 1)
    /\ ingested' = Increment(ingested, raw, 1)
    /\ UNCHANGED <<pc, traceback, Arguments, raised>>
    /\ NoCall

\* failsafe_generator: an exception of the iterable is printed and ends
\* the generation
FetchSwallowed ==
    /\ pc = "ingest"
    /\ pc' = "statistics"
    /\ traceback' = "GraphAPIError"
    /\ UNCHANGED <<storage, comment_time, fetched, ingested, Arguments,
                   raised>>
    /\ NoCall

\* generate_statistics of a counter whose keys are texts: min(self).year
\* raises AttributeError
StatisticsOfTexts(counter) ==
    IF DOMAIN counter = {} THEN NoStatistics("ValueError")
    ELSE NoStatistics("AttributeError")

\* data = storage.generate_statistics(focus, focus_days, focus_interval)
\* and output.new_document(imap(OrderedDict, data), name)
GenerateStatisticsOfTexts(now) ==
    /\ pc = "statistics"
    /\ \E stats \in {StatisticsOfTexts(storage)} :
           /\ reference_datetime' = IF focus = NoFocus THEN now ELSE focus[1]
           /\ hourly_data' = stats.hourly
           /\ dayly_data' = stats.dayly
           /\ monthly_data' = stats.monthly
           /\ yearly_data' = stats.yearly
           /\ raised' = stats.raised
           /\ pc' = IF stats.raised = None THEN "prompt" ELSE "aborted"
    /\ calls' = calls + 1
    /\ UNCHANGED <<Ingestion, Arguments>>

NextParseObject ==
    \/ \E raw \in RawTimes : CountComment(raw)
    \/ FetchSwallowed
    \/ FetchEnds
    \/ \E now \in Nows : GenerateStatisticsOfTexts(now)

SpecParseObject == Init /\ [][NextParseObject]_vars

\* the last call of generate_statistics has yielded its four series
Produced == calls > 0 /\ raised \in {None, "EOFError"}
ValidConfig == minutes_interval > 0 /\ days_focussed >= 0

(***************************************************************************)
(* Properties.                                                             *)
(***************************************************************************)
YearOfDateTime(t) == YearOf(DateOfDateTime(t))
MonthOfDateTime(t) == MonthOf(DateOfDateTime(t))

\* the months since year 0 of the month a datetime lies in
MonthIndex(t) == YearOfDateTime(t) * 12 + MonthOfDateTime(t) - 1

\* the events stored at the datetimes of S
Events(S) == Total([k \in S |-> storage[k]])

\* C1: the yearly series holds every year from the year of the oldest
\* stored datetime to the year of the newest, ascending, each with the
\* number of events stored in that year
C1_YearlyDense ==
    Produced /\ ValidConfig =>
        LET first == YearOfDateTime(Min(storage))
            last == YearOfDateTime(Max(storage))
        IN  /\ Len(yearly_data) = last - first + 1
            /\ \A i \in 1..Len(yearly_data) :
                   yearly_data[i] =
                       <<first + i - 1,
                         Events({k \in DOMAIN storage :
                                    YearOfDateTime(k) = first + i - 1})>>

C1_Witness ==
    /\ Produced /\ ValidConfig
    /\ Keys(yearly_data) = <<2020, 2021, 2022, 2023>>
    /\ yearly_data[1][2] = 2
    /\ yearly_data[2][2] = 0
    /\ yearly_data[3][2] = 0
    /\ yearly_data[4][2] = 1

\* C2: the monthly series holds the first day of every month from the
\* month of the oldest stored datetime to the month of the newest,
\* ascending, each with the number of events stored in that month
C2_MonthlyDense ==
    Produced /\ ValidConfig =>
        LET first == MonthIndex(Min(storage))
            last == MonthIndex(Max(storage))
        IN  /\ Len(monthly_data) = last - first + 1
            /\ \A i \in 1..Len(monthly_data) :
                   LET index == first + i - 1
                   IN  monthly_data[i] =
                           <<Date(index \div 12, (index % 12) + 1, 1),
                             Events({k \in DOMAIN storage :
                                        MonthIndex(k) = index})>>

C2_Witness ==
    /\ Produced /\ ValidConfig
    /\ DOMAIN storage = { DateTime(2020, 1, 15, 10, 0, 0),
                          DateTime(2020, 3, 5, 9, 50, 0) }
    /\ Keys(monthly_data) =
           <<Date(2020, 1, 1), Date(2020, 2, 1), Date(2020, 3, 1)>>
    /\ monthly_data[1][2] = 2
    /\ monthly_data[2][2] = 0
    /\ monthly_data[3][2] = 1

\* the monthly series crosses a year boundary
C2_AcrossYears ==
    /\ Produced /\ ValidConfig
    /\ Keys(monthly_data) = <<Date(2019, 12, 1), Date(2020, 1, 1)>>

\* reference, rounded down to the minute, of the last call
LastReference == reference_datetime - (reference_datetime % 60)
AtMidnight(t) == t % 86400 = 0
Seconds == minutes_interval * 60

ShiftsBy(d) ==
    HourlyKeys(reference_datetime + d * 60, minutes_interval)
        = [i \in DOMAIN hourly_data |-> hourly_data[i][1] + d * 60]

\* the shifts tried, in minutes: the ones smaller than the interval
Shifts ==
    {d \in (0..19) \cup {59, 419, 837, 1439, 1999} : d < minutes_interval}

C5_HourlyDense ==
    Produced /\ ValidConfig =>
        /\ Len(hourly_data) = (1440 \div minutes_interval) + 1
        /\ \A i \in 1..(Len(hourly_data) - 1) :
               hourly_data[i + 1][1] = hourly_data[i][1] + Seconds

C5_Witness ==
    /\ Produced
    /\ minutes_interval = 420
    /\ Len(hourly_data) = 4
    /\ hourly_data[2][1] - hourly_data[1][1] = 25200
    /\ hourly_data[4][1] - hourly_data[3][1] = 25200

\* C6: the daily series holds the days_focussed days that end with the
\* date of the reference, ascending, each with the number of events stored
\* on that date
C6_DaylyWindow ==
    Produced /\ ValidConfig =>
        LET reference_date == LastReference \div 86400
        IN  /\ Len(dayly_data) = days_focussed
            /\ \A i \in 1..Len(dayly_data) :
                   LET day == reference_date - (days_focussed - i)
                   IN  dayly_data[i] =
                           <<day, Events({k \in DOMAIN storage :
                                             k \div 86400 = day})>>

\* a reference at midnight, events at different times of the days of the
\* window and an event outside of it
C6_Witness ==
    /\ Produced
    /\ reference_datetime = DateTime(2020, 3, 5, 0, 0, 0)
    /\ dayly_data = <<<<Date(2020, 3, 4), 1>>, <<Date(2020, 3, 5), 1>>>>
    /\ Total(storage) = 3

RECURSIVE SumValues(_)
SumValues(od) ==
    IF od = << >> THEN 0 ELSE od[1][2] + SumValues(Tail(od))

\* the stored datetimes of the interval that starts at s
Within(s) == {k \in DOMAIN storage : s <= k /\ k < s + Seconds}

\* C7: every intraday bucket counts the events stored from its start to
\* one interval later, so a stored pair is counted in at most one bucket;
\* the pairs no bucket covers are left out of the intraday series and
\* still counted by the monthly and the yearly series, and the call
\* raises nothing
C7_HourlyCounts ==
    /\ calls > 0 /\ ValidConfig /\ DOMAIN storage # {} => Produced
    /\ Produced /\ ValidConfig =>
        /\ \A i \in DOMAIN hourly_data :
               hourly_data[i][2] = Events(Within(hourly_data[i][1]))
        /\ \A k \in DOMAIN storage :
               Cardinality({i \in DOMAIN hourly_data :
                               k \in Within(hourly_data[i][1])}) <= 1
        /\ SumValues(monthly_data) = Total(storage)
        /\ SumValues(yearly_data) = Total(storage)
        /\ SumValues(hourly_data) <= Total(storage)

\* one event counted before the reference, one left out
C7_Witness ==
    /\ Produced
    /\ minutes_interval = 20
    /\ reference_datetime = DateTime(2020, 3, 5, 10, 3, 27)
    /\ DOMAIN storage = { DateTime(2020, 1, 15, 10, 0, 0),
                          DateTime(2020, 3, 5, 9, 50, 0) }
    /\ Value(hourly_data, DateTime(2020, 3, 5, 9, 44, 0)) = 1
    /\ SumValues(hourly_data) = 1
    /\ SumValues(monthly_data) = 3

\* C8: an event is counted by the intraday series only if it is stored
\* between one day before the reference and the reference
C8_OnlyTheDayBefore ==
    Produced /\ ValidConfig =>
        \A k \in DOMAIN storage :
            (\E i \in DOMAIN hourly_data :
                 k \in Within(hourly_data[i][1]) /\ hourly_data[i][2] > 0)
                => LastReference - 86400 <= k /\ k <= LastReference

\* C9: once ingestion is over, no step changes the store, its oldest or
\* its newest datetime
C9_StoreUnchanged ==
    [][pc # "ingest" =>
           /\ storage' = storage
           /\ DOMAIN storage # {} =>
                  /\ Min(storage') = Min(storage)
                  /\ Max(storage') = Max(storage)]_vars

\* two aggregations of a store of three events
C9_Witness ==
    /\ Produced
    /\ calls = 2
    /\ Total(storage) = 3
    /\ SumValues(hourly_data) > 0

\* C10: ingesting a raw timestamp that parses adds one to the count of
\* its datetime with the seconds set to zero and changes no other count
C10_InsertOne ==
    [][fetched' # fetched /\ Parses(comment_time') =>
           LET raw == comment_time'
               k == DateTime(raw.year, raw.month, raw.day,
                             raw.hour, raw.minute, 0)
           IN  /\ DOMAIN storage' = DOMAIN storage \cup {k}
               /\ storage'[k] = Get(storage, k) + 1
               /\ \A x \in DOMAIN storage \ {k} : storage'[x] = storage[x]
       ]_vars

\* a second timestamp of the minute 10:00 counted with the first
C10_Witness ==
    /\ comment_time = Raw(2020, 1, 15, 10, 0, 59, "+0000")
    /\ fetched = 2
    /\ DOMAIN storage = { DateTime(2020, 1, 15, 10, 0, 0) }
    /\ storage[DateTime(2020, 1, 15, 10, 0, 0)] = 2

\* the datetime of a raw timestamp with the seconds set to zero
MinuteOfRaw(raw) ==
    DateTime(raw.year, raw.month, raw.day, raw.hour, raw.minute, 0)

\* a key of the store, datetime or text, is the datetime t
IsDateTime(k, t) == ToString(k) = ToString(t)

\* the ingested raw timestamps of the minute a key stands for
IngestedAt(k) ==
    Total([raw \in {r \in DOMAIN ingested : IsDateTime(k, MinuteOfRaw(r))}
              |-> ingested[raw]])

\* C11: every key of the store is the minute of an ingested timestamp and
\* counts the ingested timestamps of that minute, and every ingested
\* timestamp has its minute among the keys
C11_StoreCountsMinutes ==
    /\ \A k \in DOMAIN storage :
           /\ \E raw \in DOMAIN ingested : IsDateTime(k, MinuteOfRaw(raw))
           /\ storage[k] = IngestedAt(k)
    /\ \A raw \in DOMAIN ingested :
           \E k \in DOMAIN storage : IsDateTime(k, MinuteOfRaw(raw))

\* the store never loses a key and no count decreases
C11_NeverShrinks ==
    [][\A k \in DOMAIN storage :
           k \in DOMAIN storage' /\ storage'[k] >= storage[k]]_vars

\* the text of a raw timestamp does not match the expected format
Malformed(raw) ==
    \/ raw.zone # "+0000"
    \/ raw.month \notin 1..12
    \/ raw.day < 1
    \/ raw.day > DaysInMonth(raw.year, raw.month)
    \/ raw.hour > 23
    \/ raw.minute > 59
    \/ raw.second > 59

\* C12: ingesting a raw timestamp that does not match the format changes
\* nothing in the store and ends the ingestion loop with ValueError, which
\* aborts the run when nothing was fetched and is printed otherwise
C12_RejectedUnchanged ==
    [][fetched' # fetched /\ Malformed(comment_time') =>
           /\ storage' = storage
           /\ ingested' = ingested
           /\ IF DOMAIN storage = {}
              THEN pc' = "aborted" /\ raised' = "ValueError"
              ELSE pc' = "statistics" /\ traceback' = "ValueError"
       ]_vars

\* a malformed timestamp met after two were counted
C12_Witness ==
    /\ comment_time = Raw(2020, 3, 5, 10, 3, 0, "Z")
    /\ fetched = 3
    /\ Total(storage) = 2
    /\ traceback = "ValueError"
    /\ pc = "statistics"

\* the ingestion was ended by an exception
Interrupted == traceback # None \/ (pc = "aborted" /\ calls = 0)

NoSeries ==
    /\ hourly_data = << >>
    /\ dayly_data = << >>
    /\ monthly_data = << >>
    /\ yearly_data = << >>

\* C13: after an ingestion ended by an exception, an aggregation of a
\* store that holds something yields its series over what was ingested,
\* and nothing ingested means no series and a failed run
C13_PartialIngestion ==
    /\ Interrupted /\ DOMAIN storage # {} /\ calls > 0 /\ ValidConfig =>
           /\ Produced
           /\ SumValues(yearly_data) = Total(ingested)
    /\ Interrupted /\ DOMAIN storage = {} =>
           /\ NoSeries
           /\ pc = "aborted" => raised # None
           /\ pc \in {"statistics", "aborted"}

\* C14: aggregating an empty store raises ValueError, whatever the
\* reference and the configuration, and yields no series
C14_EmptyStoreRaises ==
    calls > 0 /\ DOMAIN storage = {} =>
        /\ raised = "ValueError"
        /\ pc = "aborted"
        /\ NoSeries

\* an empty store aggregated with an interval of zero
C14_Witness ==
    /\ calls = 1
    /\ DOMAIN storage = {}
    /\ minutes_interval = 0
    /\ raised = "ValueError"
    /\ NoSeries

\* C15: aggregating a store that holds something with an interval of zero
\* or less, or with a negative number of days, raises and yields no series
C15_InvalidConfigRaises ==
    calls > 0 /\ DOMAIN storage # {} /\ ~ValidConfig =>
        /\ raised \notin {None, "EOFError"}
        /\ NoSeries

\* C16: aggregating a store that holds something with a valid
\* configuration raises nothing; the yearly and the monthly counts add up
\* to the events of the store, the daily and the intraday counts to no more
C16_Conservation ==
    calls > 0 /\ DOMAIN storage # {} /\ ValidConfig =>
        /\ Produced
        /\ SumValues(yearly_data) = Total(storage)
        /\ SumValues(monthly_data) = SumValues(yearly_data)
        /\ SumValues(dayly_data) <= Total(storage)
        /\ SumValues(hourly_data) <= Total(storage)

\* three events: two in the days of the window, one in the intraday series
C16_Witness ==
    /\ Produced /\ ValidConfig
    /\ Total(storage) = 3
    /\ SumValues(yearly_data) = 3
    /\ SumValues(monthly_data) = 3
    /\ SumValues(dayly_data) = 2
    /\ SumValues(hourly_data) = 1

====
